---- MODULE Spec2Model ----
(***************************************************************************)
(* Reducer / saga injectors of react-simple-lazy-loader (src/index.js).    *)
(*                                                                         *)
(* The state is the external store the injectors mutate: the two mappings  *)
(* injectedReducers and injectedSagas, the tasks store.runSaga has         *)
(* returned (with the number of cancel() calls each has received) and the  *)
(* arguments store.replaceReducer has been called with.  Every exported    *)
(* operation is one action; `last` records the call that was made and how  *)
(* it ended (returned or threw).                                           *)
(*                                                                         *)
(* JavaScript values are tagged records [type, val] so that lodash's       *)
(* isString / isFunction / isObject / isEmpty and JS truthiness can be     *)
(* computed the way the library computes them.                             *)
(***************************************************************************)
EXTENDS Integers, Sequences, FiniteSets, TLC

\* Number of injectReducer / injectSaga / ejectSaga calls explored.
MaxCalls == 3

\* Number of auxiliary chunks a route requires, at most.
MaxChunks == 2

\* Number of Component() invocations explored on a route.
MaxInvocations == 2

VARIABLES
    NODE_ENV,             \* process.env.NODE_ENV, fixed per build
    store,                \* the store's members, by name
    injectedReducers,     \* contents of store.injectedReducers
    injectedSagas,        \* contents of store.injectedSagas
    tasks,                \* tasks returned by store.runSaga, in call order
    replaceReducerCalls,  \* arguments of store.replaceReducer, in call order
    last,                 \* the last call made and its outcome
    sagaCalls,            \* per key, a summary of the saga calls made on it
    ncalls,               \* number of injector calls made
    route,                \* the route configuration given to the route provider
    promises,             \* state of each promise of the route's require list
    components            \* the Component() invocations made, in call order

\* the state of a lazily loaded route
routeVars == <<route, promises, components>>

vars == <<NODE_ENV, store, injectedReducers, injectedSagas, tasks,
          replaceReducerCalls, last, sagaCalls, ncalls, route, promises,
          components>>

-----------------------------------------------------------------------------
\* JavaScript values

Undefined == [type |-> "undefined", val |-> "undefined"]

Str(s) == [type |-> "string", val |-> s]

Fn(name) == [type |-> "function", val |-> name]

Obj(name) == [type |-> "object", val |-> name]

Num(name) == [type |-> "number", val |-> name]

\* lodash predicates (imported at src/index.js:10)
isString(v) == v.type = "string"

isFunction(v) == v.type = "function"

\* lodash isObject: true of objects and of functions
isObject(v) == v.type \in {"object", "function"}

\* lodash isEmpty, for the values a key can be: a string is empty when its
\* length is 0, a number is always empty
isEmpty(v) == IF v.type = "string" THEN v.val = "" ELSE v.type \in {"number", "undefined"}

\* JS truthiness, as used by `descriptor.mode || DAEMON`
Truthy(v) ==
    /\ v.type # "undefined"
    /\ ~(v.type = "string" /\ v.val = "")
    /\ ~(v.type = "number" /\ v.val = "0")

\* the mode constants
RESTART_ON_REMOUNT == Str("@@saga-injector/restart-on-remount")

DAEMON == Str("@@saga-injector/daemon")

ONCE_TILL_UNMOUNT == Str("@@saga-injector/once-till-unmount")

allowedModes == {RESTART_ON_REMOUNT, DAEMON, ONCE_TILL_UNMOUNT}

\* the value ejectSaga leaves at a key in a production build
Done == Str("done")

-----------------------------------------------------------------------------
\* Mappings (plain objects keyed by strings)

\* Reflect.has(object, key)
Has(object, key) == key \in DOMAIN object

\* object[key]; undefined when the key is absent
Get(object, key) == IF key \in DOMAIN object THEN object[key] ELSE Undefined

\* object[key] = value
Put(object, key, value) == (key :> value) @@ object

\* value.name of a stored entry: a descriptor has saga, mode and task, the
\* string 'done' has none of them
Field(value, name) ==
    IF value.type = "descriptor"
    THEN (CASE name = "saga" -> value.saga
            [] name = "mode" -> value.mode
            [] name = "task" -> value.task)
    ELSE Undefined

-----------------------------------------------------------------------------
\* The store

FunctionMembers == {"dispatch", "subscribe", "getState", "replaceReducer", "runSaga"}

ObjectMembers == {"injectedReducers", "injectedSagas"}

Members == FunctionMembers \cup ObjectMembers

ValidStore == [m \in Members |-> IF m \in FunctionMembers THEN Fn(m) ELSE Obj(m)]

\* a store with one member missing or of the wrong kind
BrokenStores ==
    {[ValidStore EXCEPT ![m] = v] : m \in Members, v \in {Undefined, Str("x")}}
    \cup {[ValidStore EXCEPT ![m] = Obj(m)] : m \in FunctionMembers}


\* checkStore without the runSaga entry of the shape
checkStore_NoRunSaga(s) ==
    /\ isFunction(s["dispatch"])
    /\ isFunction(s["subscribe"])
    /\ isFunction(s["getState"])
    /\ isFunction(s["replaceReducer"])
    /\ isObject(s["injectedReducers"])
    /\ isObject(s["injectedSagas"])

\* conformsTo(store, shape) of checkStore
checkStore(s) ==
    /\ isFunction(s["dispatch"])
    /\ isFunction(s["subscribe"])
    /\ isFunction(s["getState"])
    /\ isFunction(s["replaceReducer"])
    /\ isFunction(s["runSaga"])
    /\ isObject(s["injectedReducers"])
    /\ isObject(s["injectedSagas"])

\* the isValid flag the exported factories pass to the closures
isValid == TRUE

\* createReducer(store.injectedReducers): supplied by the caller, opaque;
\* it is represented by the mapping it was applied to
createReducer(reducers) == [combined |-> reducers]

-----------------------------------------------------------------------------
\* Inputs of the calls

\* the valid keys used; neither names a member the mapping objects inherit,
\* so Reflect.has is true of them only once they have been put
KeyNames == {"users", "profile"}

ValidKeys == {Str(k) : k \in KeyNames}

\* keys that are not non-empty strings: the empty string and a number
InvalidKeys == {Str(""), Num("7")}

KeyInputs == ValidKeys \cup InvalidKeys

ReducerInputs == {Fn("usersReducer"), Fn("profileReducer"), Obj("notAReducer")}

SagaInputs == {Fn("sagaA"), Fn("sagaB")}

\* modes: the three constants, omitted, a falsy non-mode and a truthy non-mode
ModeInputs == allowedModes \cup {Undefined, Str(""), Str("bogus")}

\* descriptors: every saga with every mode, and descriptors without a saga
DescriptorInputs ==
    [saga : SagaInputs, mode : ModeInputs]
    \cup [saga : {Undefined}, mode : {Undefined, DAEMON}]

\* injectReducer(key, reducer): every reducer on the valid keys, one call for
\* each invalid key
ReducerCallInputs ==
    (ValidKeys \X ReducerInputs) \cup (InvalidKeys \X {Fn("usersReducer")})

\* injectSaga(key, descriptor): every descriptor on the valid keys, two calls
\* for each invalid key
SagaCallInputs ==
    (ValidKeys \X DescriptorInputs)
    \cup (InvalidKeys \X [saga : {Fn("sagaA")}, mode : {Undefined, RESTART_ON_REMOUNT}])

-----------------------------------------------------------------------------
\* Records of the calls

\* a call: its operation and arguments, how it ended, and the calls it made
\* on the store and on tasks (replaceReducer, runSaga, cancel), in order
Call(op, key, saga, mode, reducer, result, made) ==
    [op |-> op, key |-> key, saga |-> saga, mode |-> mode,
     reducer |-> reducer, result |-> result, made |-> made]

NoCall == Call("none", Undefined, Undefined, Undefined, Undefined, "none", << >>)

\* summary of the injectSaga / ejectSaga calls made on a key so far: none,
\* n calls that were all injectSaga(key, {saga: S, mode: DAEMON or omitted})
\* for one S, or anything else
NoCalls == [type |-> "none", saga |-> Undefined, n |-> 0]

Mixed == [type |-> "mixed", saga |-> Undefined, n |-> 0]

DaemonOnly(saga, n) == [type |-> "daemonOnly", saga |-> saga, n |-> n]

SummaryAfterInject(summary, descriptor) ==
    IF /\ isFunction(descriptor.saga)
       /\ descriptor.mode \in {DAEMON, Undefined}
       /\ \/ summary = NoCalls
          \/ summary.type = "daemonOnly" /\ summary.saga = descriptor.saga
    THEN DaemonOnly(descriptor.saga, summary.n + 1)
    ELSE Mixed

Summarise(key, summary) ==
    IF isString(key) /\ key.val \in DOMAIN sagaCalls
    THEN [sagaCalls EXCEPT ![key.val] = summary]
    ELSE sagaCalls

\* no route has been built
NoRoute == [kind |-> "none", require |-> << >>]

-----------------------------------------------------------------------------
Init ==
    /\ NODE_ENV \in {"production", "development"}
    /\ store \in {ValidStore} \cup BrokenStores
    /\ injectedReducers = << >>
    /\ injectedSagas = << >>
    /\ tasks = << >>
    /\ replaceReducerCalls = << >>
    /\ last = NoCall
    /\ sagaCalls = [k \in KeyNames |-> NoCalls]
    /\ ncalls = 0
    /\ route = NoRoute
    /\ promises = << >>
    /\ components = << >>

\* invariant(false, ...): the call throws and nothing has been changed
Throw(op, key, saga, mode, reducer) ==
    /\ last' = Call(op, key, saga, mode, reducer, "ContractViolation", << >>)
    /\ UNCHANGED <<injectedReducers, injectedSagas, tasks, replaceReducerCalls>>

-----------------------------------------------------------------------------
\* Factories.  A factory validates the store and returns closures over it;
\* it changes nothing in the store.

Factory(op) ==
    /\ last' = Call(op, Undefined, Undefined, Undefined, Undefined,
                    IF checkStore(store) THEN "returned" ELSE "ContractViolation",
                    << >>)
    /\ UNCHANGED <<NODE_ENV, store, injectedReducers, injectedSagas, tasks,
                   replaceReducerCalls, sagaCalls, ncalls>>
    /\ UNCHANGED routeVars

\* export function reducerInjectors(store, reducers)
ReducerInjectors == Factory("reducerInjectors")

\* export function sagaInjectors(store)
SagaInjectors == Factory("sagaInjectors")

\* export const simpleLazyLoadedRoute = (store, reducers): reducerInjectors,
\* then sagaInjectors (each starts with checkStore), then routeProvider, which
\* only builds a closure
SimpleLazyLoadedRoute == Factory("simpleLazyLoadedRoute")

\* an injector closure exists only as the result of a factory call that has
\* returned, that is for a store checkStore accepts
Returned(factory) == checkStore(store)

-----------------------------------------------------------------------------
\* Reducer injector


\* the early return taken when the stored reducer differs
reducerAlreadyInjected_Inverted(reducers, key, reducer) ==
    Has(reducers, key) /\ Get(reducers, key) # reducer

\* the early return of injectReducer
reducerAlreadyInjected(reducers, key, reducer) ==
    Has(reducers, key) /\ Get(reducers, key) = reducer

\* the invariant of injectReducer
checkReducerArgs(key, reducer) ==
    isString(key) /\ ~isEmpty(key) /\ isFunction(reducer)


\* createReducer applied before the assignment
replaceReducerArg_Stale(before, after) == createReducer(before)

\* the argument of store.replaceReducer: createReducer reads the mapping after
\* the assignment
replaceReducerArg(before, after) == createReducer(after)

InjectReducer(key, reducer) ==
    /\ Returned("reducerInjectors")
    /\ ncalls < MaxCalls
    /\ ncalls' = ncalls + 1
    /\ IF ~(isValid \/ checkStore(store))
       THEN Throw("injectReducer", key, Undefined, Undefined, reducer)
       ELSE IF ~checkReducerArgs(key, reducer)
       THEN Throw("injectReducer", key, Undefined, Undefined, reducer)
       ELSE /\ UNCHANGED <<injectedSagas, tasks>>
            /\ IF reducerAlreadyInjected(injectedReducers, key.val, reducer)
               THEN /\ last' = Call("injectReducer", key, Undefined, Undefined,
                                    reducer, "returned", << >>)
                    /\ UNCHANGED <<injectedReducers, replaceReducerCalls>>
               ELSE /\ last' = Call("injectReducer", key, Undefined, Undefined,
                                    reducer, "returned", <<"replaceReducer">>)
                    /\ injectedReducers' = Put(injectedReducers, key.val, reducer)
                    /\ replaceReducerCalls' =
                           Append(replaceReducerCalls,
                                  replaceReducerArg(injectedReducers, injectedReducers'))
    /\ UNCHANGED <<NODE_ENV, store, sagaCalls>>
    /\ UNCHANGED routeVars

-----------------------------------------------------------------------------
\* Saga injector and ejector

\* const checkKey = key => invariant(isString(key) && !isEmpty(key), ...)
checkKey(key) == isString(key) /\ ~isEmpty(key)

\* const newDescriptor = { ...descriptor, mode: descriptor.mode || DAEMON }
newDescriptorOf(descriptor) ==
    [saga |-> descriptor.saga,
     mode |-> IF Truthy(descriptor.mode) THEN descriptor.mode ELSE DAEMON]

\* conformsTo(descriptor, shape) of checkDescriptor
checkDescriptor(descriptor) ==
    /\ isFunction(descriptor.saga)
    /\ isString(descriptor.mode) /\ descriptor.mode \in allowedModes

\* the hot-reloading test of injectSaga, made outside production only
\* the hot-reload test made in every build
hotReload_AllBuilds(env, hasSaga, oldDescriptor, saga) ==
    /\ hasSaga
    /\ Field(oldDescriptor, "saga") # saga

\* the hot-reload test without its comparison of the two sagas
hotReload_SameSaga(env, hasSaga, oldDescriptor, saga) ==
    /\ env # "production"
    /\ hasSaga

hotReload(env, hasSaga, oldDescriptor, saga) ==
    /\ env # "production"
    /\ hasSaga
    /\ Field(oldDescriptor, "saga") # saga


\* the guard without its DAEMON test
shouldRun_RestartDaemon(hasSaga, mode) ==
    \/ ~hasSaga
    \/ (hasSaga /\ mode # ONCE_TILL_UNMOUNT)

\* the guard without its ONCE_TILL_UNMOUNT test
shouldRun_RestartOnce(hasSaga, mode) ==
    \/ ~hasSaga
    \/ (hasSaga /\ mode # DAEMON)

\* the guard without its restart disjunct
shouldRun_OnlyAbsent(hasSaga, mode) == ~hasSaga

\* the test that guards store.runSaga in injectSaga
shouldRun(hasSaga, mode) ==
    \/ ~hasSaga
    \/ (hasSaga /\ mode # DAEMON /\ mode # ONCE_TILL_UNMOUNT)


\* the guard without its DAEMON test
shouldCancel_AnyMode(descriptor) == Truthy(Field(descriptor, "mode"))

\* the test that guards task.cancel() in ejectSaga
shouldCancel(descriptor) ==
    /\ Truthy(Field(descriptor, "mode"))
    /\ Field(descriptor, "mode") # DAEMON


\* the clean-up made in every build
afterEject_AllBuilds(env, sagas, key) == Put(sagas, key, Done)

\* what ejectSaga leaves at the key after cancelling
afterEject(env, sagas, key) ==
    IF env = "production" THEN Put(sagas, key, Done) ELSE sagas

\* task.cancel(): the task has received one more cancel()
cancel(ts, task) == [ts EXCEPT ![task].cancels = @ + 1]

\* store.runSaga(saga, args): a new task, whose handle is its position; the
\* key and mode of the injectSaga call that made it are kept with it
runSaga(ts, saga, key, mode) ==
    Append(ts, [saga |-> saga, key |-> key, mode |-> mode, cancels |-> 0])

\* { ...newDescriptor, task: store.runSaga(saga, args) }
Descriptor(saga, mode, task) ==
    [type |-> "descriptor", saga |-> saga, mode |-> mode, task |-> task]

InjectSaga(key, descriptor) ==
    /\ Returned("sagaInjectors")
    /\ ncalls < MaxCalls
    /\ ncalls' = ncalls + 1
    /\ sagaCalls' = Summarise(key, SummaryAfterInject(Get(sagaCalls, key.val), descriptor))
    /\ LET newDescriptor == newDescriptorOf(descriptor)
           saga == newDescriptor.saga
           mode == newDescriptor.mode
       IN  IF ~(isValid \/ checkStore(store))
           THEN Throw("injectSaga", key, descriptor.saga, descriptor.mode, Undefined)
           ELSE IF ~checkKey(key)
           THEN Throw("injectSaga", key, descriptor.saga, descriptor.mode, Undefined)
           ELSE IF ~checkDescriptor(newDescriptor)
           THEN Throw("injectSaga", key, descriptor.saga, descriptor.mode, Undefined)
           ELSE LET oldDescriptor == Get(injectedSagas, key.val)
                    reload == hotReload(NODE_ENV, Has(injectedSagas, key.val),
                                        oldDescriptor, saga)
                    hasSaga == Has(injectedSagas, key.val) /\ ~reload
                    run == shouldRun(hasSaga, mode)
                IN  IF reload /\ oldDescriptor.type # "descriptor"
                    THEN \* oldDescriptor.task is undefined: TypeError
                         /\ last' = Call("injectSaga", key, descriptor.saga,
                                         descriptor.mode, Undefined, "TypeError", << >>)
                         /\ UNCHANGED <<injectedSagas, tasks>>
                    ELSE LET cancelled == IF reload
                                          THEN cancel(tasks, oldDescriptor.task)
                                          ELSE tasks
                         IN  /\ last' = Call("injectSaga", key, descriptor.saga,
                                             descriptor.mode, Undefined, "returned",
                                             (IF reload THEN <<"cancel">> ELSE << >>)
                                             \o (IF run THEN <<"runSaga">> ELSE << >>))
                             /\ IF run
                                THEN /\ tasks' = runSaga(cancelled, saga, key.val, mode)
                                     /\ injectedSagas' =
                                            Put(injectedSagas, key.val,
                                                Descriptor(saga, mode, Len(tasks')))
                                ELSE /\ tasks' = cancelled
                                     /\ injectedSagas' = injectedSagas
    /\ UNCHANGED <<NODE_ENV, store, injectedReducers, replaceReducerCalls>>
    /\ UNCHANGED routeVars

EjectSaga(key) ==
    /\ Returned("sagaInjectors")
    /\ ncalls < MaxCalls
    /\ ncalls' = ncalls + 1
    /\ sagaCalls' = Summarise(key, Mixed)
    /\ IF ~(isValid \/ checkStore(store))
       THEN Throw("ejectSaga", key, Undefined, Undefined, Undefined)
       ELSE IF ~checkKey(key)
       THEN Throw("ejectSaga", key, Undefined, Undefined, Undefined)
       ELSE IF Has(injectedSagas, key.val) /\ shouldCancel(Get(injectedSagas, key.val))
       THEN /\ last' = Call("ejectSaga", key, Undefined, Undefined, Undefined,
                            "returned", <<"cancel">>)
            /\ tasks' = cancel(tasks, Get(injectedSagas, key.val).task)
            /\ injectedSagas' = afterEject(NODE_ENV, injectedSagas, key.val)
            /\ UNCHANGED <<injectedReducers, replaceReducerCalls>>
       ELSE /\ last' = Call("ejectSaga", key, Undefined, Undefined, Undefined,
                            "returned", << >>)
            /\ UNCHANGED <<injectedReducers, injectedSagas, tasks, replaceReducerCalls>>
    /\ UNCHANGED <<NODE_ENV, store>>
    /\ UNCHANGED routeVars

-----------------------------------------------------------------------------
Next ==
    \/ ReducerInjectors
    \/ SagaInjectors
    \/ SimpleLazyLoadedRoute
    \/ \E call \in ReducerCallInputs : InjectReducer(call[1], call[2])
    \/ \E call \in SagaCallInputs : InjectSaga(call[1], call[2])
    \/ \E key \in KeyInputs : EjectSaga(key)

Spec == Init /\ [][Next]_vars

-----------------------------------------------------------------------------
\* Lazily loaded routes: routeProvider, Component() and applyPromise

\* values a Component() promise settles with
FinalContainer == [type |-> "component", val |-> "finalContainer"]
DefaultContainer == [type |-> "component", val |-> "default"]
Error(reason) == [type |-> "error", val |-> reason]

\* the error an invariant() failure throws
ContractViolation == Error("ContractViolation")

\* the error the container factory throws
ContainerError == Error("container failed")

\* the reason promise i of the require list rejects with
LoadError(i) == [type |-> "error", val |-> "load failed", promise |-> i]

\* a module whose exports are { name, reducer, saga }
Exports(name, reducer, saga) ==
    [type |-> "object", default |-> Undefined,
     name |-> name, reducer |-> reducer, saga |-> saga]

\* a module whose default export is { name, reducer, saga }
DefaultExports(name, reducer, saga) ==
    [type |-> "object", default |-> Exports(name, reducer, saga),
     name |-> Undefined, reducer |-> Undefined, saga |-> Undefined]

\* the modules the auxiliary chunk promises fulfil with
ChunkInputs ==
    { Exports(Str("users"), Fn("usersReducer"), Fn("sagaA")),
      DefaultExports(Str("profile"), Fn("profileReducer"), Undefined),
      Exports(Str("users"), Fn("profileReducer"), Fn("sagaB")),
      DefaultExports(Str("profile"), Fn("profileReducer"), Obj("notASaga")) }

\* the module the container promise fulfils with
ContainerModule ==
    DefaultExports(Str("container"), Fn("containerReducer"), Fn("containerSaga"))

\* the lists of at most n chunk modules
ChunkLists(n) == UNION {[1..len -> ChunkInputs] : len \in 0..n}

\* container: a loader function that returns the component, one that throws,
\* or the promise of the container module
Loader == Fn("loader")
ThrowingLoader == Fn("throwingLoader")
ContainerPromise == Obj("containerPromise")

\* the route configurations: { container, require }, require being the
\* container module's promise followed by one promise per chunk, each given
\* here as the module it fulfils with
RouteInputs ==
    {[kind |-> "route", container |-> c, require |-> <<ContainerModule>> \o chunks] :
        c \in {Loader, ThrowingLoader}, chunks \in ChunkLists(MaxChunks)}
    \cup {[kind |-> "route", container |-> ContainerPromise,
           require |-> <<ContainerModule>>]}

\* the promises Component() waits for: require when container is a
\* function, container itself otherwise
Awaited(r) == 1..Len(r.require)

\* a Component() invocation: the state of the promise it returned, what the
\* promise settled with, the injector calls and the container call its
\* callback made, and the promise whose rejection rejected Promise.all
Invocation(state, value, log, rejectedBy) ==
    [state |-> state, value |-> value, log |-> log, rejectedBy |-> rejectedBy]

\* a Promise.all that waits for the container module only
allFulfilled_ContainerOnly(ps) == ps[1] = "fulfilled"

\* Promise.all(promises) is fulfilled
allFulfilled(ps) == \A i \in DOMAIN ps : ps[i] = "fulfilled"

\* the rejected promise Promise.all meets first when it is built: the one of
\* lowest position, 0 when none is rejected
firstRejected(ps) ==
    IF \E i \in DOMAIN ps : ps[i] = "rejected"
    THEN CHOOSE i \in DOMAIN ps :
             /\ ps[i] = "rejected"
             /\ \A j \in DOMAIN ps : ps[j] = "rejected" => i <= j
    ELSE 0

\* the destructuring that keeps the container module among the chunks
chunksOf_All(modules) == modules

\* [promiseContainer, ...chunks]: the modules after the first
chunksOf(modules) == Tail(modules)

\* chunk.default || chunk, read as the chunk itself
exportsOf_NoDefault(chunk) == chunk

\* chunk.default || chunk
exportsOf(chunk) == IF Truthy(chunk.default) THEN chunk.default ELSE chunk

\* the store as a callback sees it, with the calls the callback has made and
\* the error it has thrown
Running(reducers, sagas, ts, replaced) ==
    [reducers |-> reducers, sagas |-> sagas, tasks |-> ts, replaced |-> replaced,
     log |-> << >>, thrown |-> Undefined]

\* one entry of a callback's log
Logged(op, chunk, key, value, made) ==
    [op |-> op, chunk |-> chunk, key |-> key, value |-> value, made |-> made]

\* injectReducer(key, reducer), called for chunk i by the callback
injectReducer(st, i, key, reducer) ==
    IF ~checkReducerArgs(key, reducer)
    THEN [st EXCEPT !.thrown = ContractViolation,
                    !.log = Append(@, Logged("injectReducer", i, key, reducer, << >>))]
    ELSE IF reducerAlreadyInjected(st.reducers, key.val, reducer)
    THEN [st EXCEPT !.log = Append(@, Logged("injectReducer", i, key, reducer, << >>))]
    ELSE LET after == Put(st.reducers, key.val, reducer)
         IN  [st EXCEPT !.reducers = after,
                        !.replaced = Append(@, replaceReducerArg(st.reducers, after)),
                        !.log = Append(@, Logged("injectReducer", i, key, reducer,
                                                 <<"replaceReducer">>))]

\* injectSaga(key, descriptor), called for chunk i by the callback
injectSaga(st, i, key, descriptor) ==
    LET newDescriptor == newDescriptorOf(descriptor)
        saga == newDescriptor.saga
        mode == newDescriptor.mode
    IN  IF ~checkKey(key) \/ ~checkDescriptor(newDescriptor)
        THEN [st EXCEPT !.thrown = ContractViolation,
                        !.log = Append(@, Logged("injectSaga", i, key, saga, << >>))]
        ELSE LET oldDescriptor == Get(st.sagas, key.val)
                 reload == hotReload(NODE_ENV, Has(st.sagas, key.val),
                                     oldDescriptor, saga)
                 hasSaga == Has(st.sagas, key.val) /\ ~reload
                 run == shouldRun(hasSaga, mode)
             IN  IF reload /\ oldDescriptor.type # "descriptor"
                 THEN [st EXCEPT !.thrown = Error("TypeError"),
                                 !.log = Append(@, Logged("injectSaga", i, key,
                                                          saga, << >>))]
                 ELSE LET cancelled == IF reload
                                       THEN cancel(st.tasks, oldDescriptor.task)
                                       ELSE st.tasks
                          started == IF run
                                     THEN runSaga(cancelled, saga, key.val, mode)
                                     ELSE cancelled
                      IN  [st EXCEPT
                              !.tasks = started,
                              !.sagas = IF run
                                        THEN Put(@, key.val,
                                                 Descriptor(saga, mode, Len(started)))
                                        ELSE @,
                              !.log = Append(@, Logged("injectSaga", i, key, saga,
                                  (IF reload THEN <<"cancel">> ELSE << >>)
                                  \o (IF run THEN <<"runSaga">> ELSE << >>)))]

\* the body of chunks.forEach for chunk i, with the saga injected first
forChunk_SagaFirst(st, i, chunk) ==
    LET exports == exportsOf(chunk)
        withSaga == IF Truthy(exports.saga)
                    THEN injectSaga(st, i, exports.name,
                                    [saga |-> exports.saga, mode |-> Undefined])
                    ELSE st
    IN  IF withSaga.thrown # Undefined THEN withSaga
        ELSE IF Truthy(exports.reducer)
        THEN injectReducer(withSaga, i, exports.name, exports.reducer)
        ELSE withSaga

\* the body of chunks.forEach for chunk i
forChunk(st, i, chunk) ==
    LET exports == exportsOf(chunk)
        withReducer == IF Truthy(exports.reducer)
                       THEN injectReducer(st, i, exports.name, exports.reducer)
                       ELSE st
    IN  IF withReducer.thrown # Undefined THEN withReducer
        ELSE IF Truthy(exports.saga)
        THEN injectSaga(withReducer, i, exports.name,
                        [saga |-> exports.saga, mode |-> Undefined])
        ELSE withReducer

\* chunks.forEach(...) from chunk i on: an error thrown for a chunk ends it
RECURSIVE forEach(_, _, _)
forEach(st, chunks, i) ==
    IF i > Len(chunks) \/ st.thrown # Undefined
    THEN st
    ELSE forEach(forChunk(st, i, chunks[i]), chunks, i + 1)

\* containerProvider.apply(...) inside try / catch: what the callback returns
construct(container) ==
    IF container = ThrowingLoader THEN ContainerError ELSE FinalContainer

\* the callback given to Promise.all(promises).then: the store it leaves and
\* the settlement of the promise then() returned
thenCallback(r, st) ==
    LET injected == forEach(st, chunksOf(r.require), 1)
    IN  IF injected.thrown # Undefined
        THEN [store |-> injected, state |-> "rejected", value |-> injected.thrown]
        ELSE [store |-> [injected EXCEPT
                            !.log = Append(@, Logged("container", 0, Undefined,
                                                     r.container, << >>))],
              state |-> "fulfilled", value |-> construct(r.container)]

\* a promise chain with no catch: the settlement is passed on as it is
catch_Missing(settled) == settled

\* .catch(error => error): a rejection becomes a fulfilment with the error
catch(settled) ==
    IF settled.state = "rejected"
    THEN [settled EXCEPT !.state = "fulfilled"]
    ELSE settled

\* the state after simpleLazyLoadedRoute(store, reducers)(configuration) on a
\* valid store
InitRoute ==
    /\ NODE_ENV \in {"production", "development"}
    /\ store = ValidStore
    /\ injectedReducers = << >>
    /\ injectedSagas = << >>
    /\ tasks = << >>
    /\ replaceReducerCalls = << >>
    /\ last = NoCall
    /\ sagaCalls = [k \in KeyNames |-> NoCalls]
    /\ ncalls = 0
    /\ route \in RouteInputs
    /\ promises = [i \in Awaited(route) |-> "pending"]
    /\ components = << >>

\* what no step of a route changes
routeFrame == <<NODE_ENV, store, last, sagaCalls, ncalls, route>>

\* Component() is called: the promise it returns is pending
Component ==
    /\ Len(components) < MaxInvocations
    /\ components' = Append(components,
           Invocation("pending", Undefined, << >>,
                      IF isFunction(route.container)
                      THEN firstRejected(promises) ELSE 0))
    /\ UNCHANGED <<injectedReducers, injectedSagas, tasks, replaceReducerCalls,
                   promises>>
    /\ UNCHANGED routeFrame

\* promise i fulfils with its module
Fulfil(i) ==
    /\ promises[i] = "pending"
    /\ promises' = [promises EXCEPT ![i] = "fulfilled"]
    /\ UNCHANGED <<injectedReducers, injectedSagas, tasks, replaceReducerCalls,
                   components>>
    /\ UNCHANGED routeFrame

\* promise i rejects: every Promise.all that is waiting and has met no
\* rejection is rejected by it
Reject(i) ==
    /\ promises[i] = "pending"
    /\ promises' = [promises EXCEPT ![i] = "rejected"]
    /\ components' =
           [c \in DOMAIN components |->
               IF /\ isFunction(route.container)
                  /\ components[c].state = "pending"
                  /\ components[c].rejectedBy = 0
               THEN [components[c] EXCEPT !.rejectedBy = i]
               ELSE components[c]]
    /\ UNCHANGED <<injectedReducers, injectedSagas, tasks, replaceReducerCalls>>
    /\ UNCHANGED routeFrame

\* the then / catch chain of applyPromise for invocation c, once every promise
\* has fulfilled
Loaded(c) ==
    /\ isFunction(route.container)
    /\ components[c].state = "pending"
    /\ allFulfilled(promises)
    /\ LET settled == catch(thenCallback(route,
                          Running(injectedReducers, injectedSagas, tasks,
                                  replaceReducerCalls)))
       IN  /\ injectedReducers' = settled.store.reducers
           /\ injectedSagas' = settled.store.sagas
           /\ tasks' = settled.store.tasks
           /\ replaceReducerCalls' = settled.store.replaced
           /\ components' = [components EXCEPT ![c] =
                  Invocation(settled.state, settled.value, settled.store.log, @.rejectedBy)]
    /\ UNCHANGED promises
    /\ UNCHANGED routeFrame

\* the then / catch chain of applyPromise for invocation c, once Promise.all
\* is rejected: the callback of then() is not run
LoadFailed(c) ==
    /\ isFunction(route.container)
    /\ components[c].state = "pending"
    /\ components[c].rejectedBy # 0
    /\ LET settled == catch([state |-> "rejected",
                             value |-> LoadError(components[c].rejectedBy)])
       IN  components' = [components EXCEPT ![c] =
               Invocation(settled.state, settled.value, << >>, @.rejectedBy)]
    /\ UNCHANGED <<injectedReducers, injectedSagas, tasks, replaceReducerCalls,
                   promises>>
    /\ UNCHANGED routeFrame

\* Promise.resolve(container.then(...).catch(...)) for invocation c, once the
\* container promise has settled
ContainerSettled(c) ==
    /\ ~isFunction(route.container)
    /\ components[c].state = "pending"
    /\ promises[1] # "pending"
    /\ LET settled == catch(IF promises[1] = "fulfilled"
                            THEN [state |-> "fulfilled", value |-> DefaultContainer]
                            ELSE [state |-> "rejected", value |-> LoadError(1)])
       IN  components' = [components EXCEPT ![c] =
               Invocation(settled.state, settled.value, << >>, @.rejectedBy)]
    /\ UNCHANGED <<injectedReducers, injectedSagas, tasks, replaceReducerCalls,
                   promises>>
    /\ UNCHANGED routeFrame

NextRoute ==
    \/ Component
    \/ \E i \in DOMAIN promises : Fulfil(i)
    \/ \E i \in DOMAIN promises : Reject(i)
    \/ \E c \in DOMAIN components : Loaded(c)
    \/ \E c \in DOMAIN components : LoadFailed(c)
    \/ \E c \in DOMAIN components : ContainerSettled(c)

SpecRoute == InitRoute /\ [][NextRoute]_vars

-----------------------------------------------------------------------------
\* Properties

\* the tasks store.runSaga has returned for a key
TasksOf(k) == {i \in 1..Len(tasks) : tasks[i].key = k}

\* the task most recently started for a key
LatestTaskOf(k) == CHOOSE i \in TasksOf(k) : \A j \in TasksOf(k) : j <= i

\* the step is a call of op with this key
IsCallOn(op, k) == last'.op = op /\ last'.key = Str(k)

\* the entry at k is a descriptor with this mode
HasMode(k, mode) ==
    Has(injectedSagas, k) /\ Field(injectedSagas[k], "mode") = mode

\* C1: while every saga call made on a key has been injectSaga(key, {saga: S,
\* mode: DAEMON}) with DAEMON given or omitted, for one S, store.runSaga has
\* been called exactly once for the key, with S: the first call starts the
\* task and no later one starts another.
C1_DaemonStartedOnce ==
    \A k \in KeyNames :
        sagaCalls[k].type = "daemonOnly" =>
            /\ Cardinality(TasksOf(k)) = 1
            /\ \A i \in TasksOf(k) : tasks[i].saga = sagaCalls[k].saga

C1_Witness ==
    \E k \in KeyNames :
        /\ sagaCalls[k].type = "daemonOnly"
        /\ sagaCalls[k].n >= 2
        /\ last.op = "injectSaga" /\ last.key = Str(k) /\ last.made = << >>
        /\ Cardinality(TasksOf(k)) = 1

\* in production, k holds the sentinel left by ejecting a task that was
\* started with saga S in mode ONCE_TILL_UNMOUNT
EjectedOnceTillUnmount(k, saga) ==
    /\ NODE_ENV = "production"
    /\ Get(injectedSagas, k) = Done
    /\ TasksOf(k) # {}
    /\ tasks[LatestTaskOf(k)].mode = ONCE_TILL_UNMOUNT
    /\ tasks[LatestTaskOf(k)].saga = saga
    /\ tasks[LatestTaskOf(k)].cancels = 1

\* C2 as stated: in production, injectSaga(K, {saga: S, mode:
\* ONCE_TILL_UNMOUNT}) on the sentinel left by ejecting K calls store.runSaga
\* once more and makes injectedSagas[K] a full descriptor again.
C2_RestartsAfterEject ==
    [][\A k \in KeyNames :
          (/\ IsCallOn("injectSaga", k)
           /\ last'.mode = ONCE_TILL_UNMOUNT
           /\ EjectedOnceTillUnmount(k, last'.saga))
          => /\ Len(tasks') = Len(tasks) + 1
             /\ injectedSagas'[k] =
                    Descriptor(last'.saga, ONCE_TILL_UNMOUNT, Len(tasks'))]_vars

\* C2 amended: in production, injectSaga(K, {saga: S, mode:
\* ONCE_TILL_UNMOUNT}) on the sentinel left by ejecting K returns without
\* calling store.runSaga or cancel(), and injectedSagas[K] stays the sentinel.
C2_StaysEjected ==
    [][\A k \in KeyNames :
          (/\ IsCallOn("injectSaga", k)
           /\ last'.mode = ONCE_TILL_UNMOUNT
           /\ EjectedOnceTillUnmount(k, last'.saga))
          => /\ last'.result = "returned"
             /\ last'.made = << >>
             /\ tasks' = tasks
             /\ injectedSagas' = injectedSagas]_vars

C2_Witness ==
    \E k \in KeyNames :
        /\ last.op = "injectSaga" /\ last.key = Str(k)
        /\ last.mode = ONCE_TILL_UNMOUNT
        /\ last.result = "returned"
        /\ EjectedOnceTillUnmount(k, last.saga)

\* C3: injectReducer(K, R) called while injectedReducers[K] is already R does
\* not call store.replaceReducer and leaves injectedReducers unchanged; and
\* after any injectReducer(K, R) that returns, injectedReducers[K] is R, so
\* that the same call made again replaces nothing.
C3_SameReducerIsNoOp ==
    [][\A k \in KeyNames :
          (IsCallOn("injectReducer", k) /\ last'.result = "returned")
          => /\ injectedReducers'[k] = last'.reducer
             /\ (Has(injectedReducers, k) /\ injectedReducers[k] = last'.reducer)
                => /\ last'.made = << >>
                   /\ replaceReducerCalls' = replaceReducerCalls
                   /\ injectedReducers' = injectedReducers]_vars

C3_Witness ==
    \E k \in KeyNames :
        /\ last.op = "injectReducer" /\ last.key = Str(k)
        /\ last.result = "returned" /\ last.made = << >>
        /\ injectedReducers[k] = last.reducer
        /\ Len(replaceReducerCalls) = 1

\* C4: injectReducer(K, R) with a valid key and a callable R, called while K is
\* absent or mapped to another reference, sets injectedReducers[K] = R and
\* calls store.replaceReducer exactly once, with createReducer of the mapping
\* as it is after the update; and an entry of injectedReducers changes only in
\* an injectReducer call on its key that supplies a different reference.
C4_InjectReducerReplaces ==
    [][/\ \A k \in KeyNames :
            (/\ IsCallOn("injectReducer", k)
             /\ isFunction(last'.reducer)
             /\ ~(Has(injectedReducers, k) /\ injectedReducers[k] = last'.reducer))
            => /\ last'.result = "returned"
               /\ last'.made = <<"replaceReducer">>
               /\ injectedReducers'[k] = last'.reducer
               /\ \A other \in DOMAIN injectedReducers' \ {k} :
                      /\ other \in DOMAIN injectedReducers
                      /\ injectedReducers'[other] = injectedReducers[other]
               /\ replaceReducerCalls' =
                      Append(replaceReducerCalls, [combined |-> injectedReducers'])
       /\ \A k \in KeyNames :
            Get(injectedReducers', k) # Get(injectedReducers, k)
            => /\ IsCallOn("injectReducer", k)
               /\ injectedReducers'[k] = last'.reducer]_vars

C4_Witness ==
    \E k \in KeyNames :
        /\ last.op = "injectReducer" /\ last.key = Str(k)
        /\ last.made = <<"replaceReducer">>
        /\ Len(replaceReducerCalls) = 2
        /\ replaceReducerCalls[1].combined[k] # last.reducer
        /\ replaceReducerCalls[2].combined = injectedReducers
        /\ injectedReducers[k] = last.reducer

\* C5: every injectSaga(K, {saga: S, mode: RESTART_ON_REMOUNT}) with a valid
\* key and a callable S, whatever K holds, returns having called
\* store.runSaga exactly once and leaves injectedSagas[K] = {saga: S, mode:
\* RESTART_ON_REMOUNT, task: the task of that runSaga call}, a task that no
\* earlier call returned.
C5_RestartOnRemountAlwaysStarts ==
    [][\A k \in KeyNames :
          (/\ IsCallOn("injectSaga", k)
           /\ last'.mode = RESTART_ON_REMOUNT
           /\ isFunction(last'.saga))
          => /\ last'.result = "returned"
             /\ Len(SelectSeq(last'.made, LAMBDA c : c = "runSaga")) = 1
             /\ Len(tasks') = Len(tasks) + 1
             /\ tasks'[Len(tasks')].saga = last'.saga
             /\ tasks'[Len(tasks')].cancels = 0
             /\ injectedSagas'[k] =
                    Descriptor(last'.saga, RESTART_ON_REMOUNT, Len(tasks'))]_vars

C5_Witness ==
    \E k \in KeyNames :
        /\ last.op = "injectSaga" /\ last.key = Str(k)
        /\ last.mode = RESTART_ON_REMOUNT
        /\ last.made = <<"runSaga">>
        /\ Len(tasks) = 2
        /\ \A i \in 1..2 :
              /\ tasks[i].key = k
              /\ tasks[i].saga = last.saga
              /\ tasks[i].mode = RESTART_ON_REMOUNT
        /\ injectedSagas[k].task = 2

\* C6: ejectSaga(K) with a valid key, called while injectedSagas[K] is a
\* descriptor whose mode is DAEMON or while K has no entry, returns without
\* calling cancel() and leaves the store as it was.
C6_EjectSparesDaemon ==
    [][\A k \in KeyNames :
          (/\ IsCallOn("ejectSaga", k)
           /\ (HasMode(k, DAEMON) \/ ~Has(injectedSagas, k)))
          => /\ last'.result = "returned"
             /\ last'.made = << >>
             /\ tasks' = tasks
             /\ injectedSagas' = injectedSagas
             /\ injectedReducers' = injectedReducers
             /\ replaceReducerCalls' = replaceReducerCalls]_vars

C6_Witness ==
    \E k \in KeyNames :
        /\ last.op = "ejectSaga" /\ last.key = Str(k)
        /\ last.result = "returned"
        /\ HasMode(k, DAEMON)
        /\ tasks[injectedSagas[k].task].cancels = 0

\* the step is injectSaga(k, {saga: the stored saga, mode in modes}) or
\* ejectSaga(k), made while k holds a DAEMON descriptor
CallOnDaemon(k, modes) ==
    /\ HasMode(k, DAEMON)
    /\ \/ IsCallOn("ejectSaga", k)
       \/ /\ IsCallOn("injectSaga", k)
          /\ last'.saga = injectedSagas[k].saga
          /\ last'.mode \in modes

\* C7 as stated: while K holds a DAEMON descriptor with saga S, no
\* injectSaga(K, {saga: S, mode}) with any of the three modes and no
\* ejectSaga(K) cancels the daemon's task or starts another task.
C7_DaemonNeverRestarted ==
    [][\A k \in KeyNames :
          CallOnDaemon(k, allowedModes)
          => /\ Len(tasks') = Len(tasks)
             /\ tasks'[injectedSagas[k].task].cancels =
                    tasks[injectedSagas[k].task].cancels]_vars

\* C7 amended: while K holds a DAEMON descriptor with saga S, no
\* injectSaga(K, {saga: S, mode}) with mode DAEMON or ONCE_TILL_UNMOUNT and no
\* ejectSaga(K) calls cancel() or store.runSaga, and K keeps its descriptor.
C7_DaemonKeptByDaemonAndOnce ==
    [][\A k \in KeyNames :
          CallOnDaemon(k, {DAEMON, ONCE_TILL_UNMOUNT})
          => /\ last'.result = "returned"
             /\ last'.made = << >>
             /\ tasks' = tasks
             /\ injectedSagas' = injectedSagas]_vars

C7_Witness ==
    \E k \in KeyNames :
        /\ last.op = "injectSaga" /\ last.key = Str(k)
        /\ last.mode = ONCE_TILL_UNMOUNT
        /\ HasMode(k, DAEMON)
        /\ last.saga = injectedSagas[k].saga
        /\ last.made = << >>
        /\ tasks[injectedSagas[k].task].cancels = 0

\* C8: ejectSaga(K) with a valid key, called while injectedSagas[K] is a
\* descriptor whose mode is RESTART_ON_REMOUNT or ONCE_TILL_UNMOUNT, calls
\* cancel() exactly once, on that descriptor's task, and nothing else; in
\* production injectedSagas[K] is then the sentinel, otherwise injectedSagas is
\* as it was.
C8_EjectCancelsOnce ==
    [][\A k \in KeyNames :
          (/\ IsCallOn("ejectSaga", k)
           /\ (HasMode(k, RESTART_ON_REMOUNT) \/ HasMode(k, ONCE_TILL_UNMOUNT)))
          => /\ last'.result = "returned"
             /\ last'.made = <<"cancel">>
             /\ tasks' = [tasks EXCEPT ![injectedSagas[k].task].cancels = @ + 1]
             /\ IF NODE_ENV = "production"
                THEN injectedSagas' = [injectedSagas EXCEPT ![k] = Done]
                ELSE injectedSagas' = injectedSagas]_vars

C8_Witness ==
    \E k \in KeyNames :
        /\ last.op = "ejectSaga" /\ last.key = Str(k)
        /\ last.made = <<"cancel">>
        /\ NODE_ENV # "production"
        /\ HasMode(k, ONCE_TILL_UNMOUNT)
        /\ tasks[injectedSagas[k].task].cancels = 1

\* C9: for a store with a required member missing or of the wrong kind, every
\* factory call fails with a contract violation (so returns no injector), and
\* the mappings are unmodified and neither replaceReducer nor runSaga has been
\* called.
C9_BrokenStoreRejected ==
    store \in BrokenStores =>
        /\ last.op \in {"none", "reducerInjectors", "sagaInjectors",
                        "simpleLazyLoadedRoute"}
        /\ last.op # "none" => last.result = "ContractViolation"
        /\ injectedReducers = << >>
        /\ injectedSagas = << >>
        /\ replaceReducerCalls = << >>
        /\ tasks = << >>

C9_Witness ==
    /\ store["runSaga"] = Undefined
    /\ last.op = "simpleLazyLoadedRoute"
    /\ last.result = "ContractViolation"

\* the arguments of a call that the contract rejects: a key that is not a
\* non-empty string, a reducer or a saga that is not callable, a mode that is
\* given and is not one of the three constants
Rejected(call) ==
    /\ call.op \in {"injectReducer", "injectSaga", "ejectSaga"}
    /\ \/ ~(isString(call.key) /\ call.key.val # "")
       \/ call.op = "injectReducer" /\ ~isFunction(call.reducer)
       \/ call.op = "injectSaga" /\ ~isFunction(call.saga)
       \/ call.op = "injectSaga" /\ call.mode # Undefined
                                 /\ call.mode \notin allowedModes

\* C10 as stated: injectReducer, injectSaga and ejectSaga fail with a contract
\* violation, changing nothing and calling nothing, whenever the key is not a
\* non-empty string, the reducer or the saga is not callable, or the mode is
\* given and is not one of the three constants.
C10_InvalidArgumentsRejected ==
    [][Rejected(last')
          => /\ last'.result = "ContractViolation"
             /\ last'.made = << >>
             /\ UNCHANGED <<injectedReducers, injectedSagas, tasks,
                            replaceReducerCalls>>]_vars

\* the mode an injectSaga call runs with: the one given, DAEMON when omitted
ModeOf(call) == IF call.mode = Undefined THEN DAEMON ELSE call.mode

\* the step is injectSaga(k, {saga, mode}) with valid arguments, made while
\* the entry at k is a descriptor
InjectOnDescriptor(k) ==
    /\ IsCallOn("injectSaga", k)
    /\ ~Rejected(last')
    /\ Has(injectedSagas, k)
    /\ injectedSagas[k].type = "descriptor"

\* C16: injectSaga(K, {saga: S2, mode: M}) made while injectedSagas[K] is a
\* descriptor with another saga S1: outside production it calls cancel() on
\* the old descriptor's task, then store.runSaga, and stores {S2, M, new task},
\* for every mode M; in production it never calls cancel(), and with M DAEMON
\* or ONCE_TILL_UNMOUNT it starts nothing and leaves the old entry.
C16_HotReloadOnlyOutsideProduction ==
    [][\A k \in KeyNames :
          (InjectOnDescriptor(k) /\ injectedSagas[k].saga # last'.saga)
          => /\ last'.result = "returned"
             /\ IF NODE_ENV # "production"
                THEN /\ last'.made = <<"cancel", "runSaga">>
                     /\ Len(tasks') = Len(tasks) + 1
                     /\ tasks'[injectedSagas[k].task].cancels =
                            tasks[injectedSagas[k].task].cancels + 1
                     /\ tasks'[Len(tasks')].saga = last'.saga
                     /\ tasks'[Len(tasks')].cancels = 0
                     /\ injectedSagas'[k] =
                            Descriptor(last'.saga, ModeOf(last'), Len(tasks'))
                ELSE /\ \A i \in 1..Len(last'.made) : last'.made[i] # "cancel"
                     /\ \A i \in 1..Len(tasks) : tasks'[i] = tasks[i]
                     /\ ModeOf(last') \in {DAEMON, ONCE_TILL_UNMOUNT}
                        => /\ last'.made = << >>
                           /\ tasks' = tasks
                           /\ injectedSagas' = injectedSagas]_vars

C16_Witness ==
    \E k \in KeyNames :
        /\ NODE_ENV # "production"
        /\ last.op = "injectSaga" /\ last.key = Str(k)
        /\ last.made = <<"cancel", "runSaga">>
        /\ HasMode(k, DAEMON)
        /\ injectedSagas[k].saga = last.saga
        /\ \E i \in TasksOf(k) :
              /\ tasks[i].saga # last.saga
              /\ tasks[i].mode = DAEMON
              /\ tasks[i].cancels = 1

\* C17: injectSaga(K, {saga: S, mode: M}) with M DAEMON or ONCE_TILL_UNMOUNT,
\* made while injectedSagas[K] is a descriptor whose saga is S, leaves
\* injectedSagas as it was and calls neither store.runSaga nor cancel(),
\* whatever the mode of the stored descriptor.
C17_SameSagaIsSkipped ==
    [][\A k \in KeyNames :
          (/\ InjectOnDescriptor(k)
           /\ injectedSagas[k].saga = last'.saga
           /\ ModeOf(last') \in {DAEMON, ONCE_TILL_UNMOUNT})
          => /\ last'.result = "returned"
             /\ last'.made = << >>
             /\ tasks' = tasks
             /\ injectedSagas' = injectedSagas]_vars

C17_Witness ==
    \E k \in KeyNames :
        /\ last.op = "injectSaga" /\ last.key = Str(k)
        /\ last.mode = DAEMON
        /\ HasMode(k, RESTART_ON_REMOUNT)
        /\ last.saga = injectedSagas[k].saga
        /\ last.made = << >>
        /\ Cardinality(TasksOf(k)) = 1

\* the tasks started for a key that have received no cancel()
LiveTasksOf(k) == {i \in TasksOf(k) : tasks[i].cancels = 0}

\* C19 as stated: for each key, at most one task started for the key has not
\* had cancel() called on it, and that task is the one recorded in
\* injectedSagas[key].task: no started, uncancelled task is left without a
\* handle in the store.
C19_OneLiveTaskPerKey ==
    \A k \in KeyNames :
        /\ Cardinality(LiveTasksOf(k)) <= 1
        /\ \A i \in LiveTasksOf(k) :
              /\ Has(injectedSagas, k)
              /\ Field(injectedSagas[k], "task") = i

\* C20 as stated: no task has cancel() called on it more than once, and no
\* injectSaga or ejectSaga call with valid arguments fails because of the
\* entry that earlier calls left at its key.
C20_CancelledAtMostOnce ==
    /\ \A i \in 1..Len(tasks) : tasks[i].cancels <= 1
    /\ (last.op \in {"injectSaga", "ejectSaga"} /\ ~Rejected(last))
       => last.result = "returned"

-----------------------------------------------------------------------------
\* Properties of lazily loaded routes

\* the auxiliary chunks of the route, in the order of require
RouteChunks ==
    [j \in 1..(Len(route.require) - 1) |-> route.require[j + 1]]

\* what a chunk module gives to the injectors: its default export if it has
\* one, the module itself otherwise
Given(chunk) == IF chunk.default = Undefined THEN chunk ELSE chunk.default

\* the store has received no injection
Untouched ==
    /\ injectedReducers = << >>
    /\ injectedSagas = << >>
    /\ tasks = << >>
    /\ replaceReducerCalls = << >>

\* invocation c ran the callback to its end: it called the container factory
Constructed(c) ==
    /\ components[c].log # << >>
    /\ components[c].log[Len(components[c].log)].op = "container"

\* C11: on a route whose container is a loader function, no injectReducer or
\* injectSaga call is made while a promise of require is not fulfilled; the
\* calls an invocation makes follow the declaration order of the chunks, a
\* chunk's reducer before its saga, one call for each reducer and saga the
\* chunks export; and the container factory is called after all of them.
C11_InjectionsAfterAllFulfilled ==
    isFunction(route.container) =>
        /\ (\E i \in DOMAIN promises : promises[i] # "fulfilled")
           => /\ Untouched
              /\ \A c \in DOMAIN components : components[c].log = << >>
        /\ \A c \in DOMAIN components :
              LET log == components[c].log
              IN  /\ \A a, b \in DOMAIN log :
                        a < b =>
                          /\ log[a].op # "container"
                          /\ log[b].op # "container" =>
                               \/ log[a].chunk < log[b].chunk
                               \/ /\ log[a].chunk = log[b].chunk
                                  /\ log[a].op = "injectReducer"
                                  /\ log[b].op = "injectSaga"
                  /\ Constructed(c) =>
                        \A j \in DOMAIN RouteChunks :
                            /\ Truthy(Given(RouteChunks[j]).reducer)
                               <=> \E a \in DOMAIN log :
                                      log[a].op = "injectReducer" /\ log[a].chunk = j
                            /\ Truthy(Given(RouteChunks[j]).saga)
                               <=> \E a \in DOMAIN log :
                                      log[a].op = "injectSaga" /\ log[a].chunk = j

C11_Witness ==
    /\ isFunction(route.container)
    /\ Len(promises) = 3
    /\ \E c \in DOMAIN components :
          /\ Constructed(c)
          /\ Len(components[c].log) = 4
          /\ components[c].log[1].chunk = 1
          /\ components[c].log[2].chunk = 1
          /\ components[c].log[3].chunk = 2

\* the promise invocation c returned is no longer pending
Settled(c) == components[c].state # "pending"

\* C12 as stated: the promise returned by Component() does not resolve until
\* the container module's promise and every auxiliary chunk promise have
\* settled: a rejection of one promise does not make it resolve while another
\* promise is still pending.
C12_ResolvesAfterAllSettled ==
    \A c \in DOMAIN components :
        Settled(c) => \A i \in DOMAIN promises : promises[i] # "pending"

\* C12 amended: the promise returned by Component() does not resolve until
\* either every promise has fulfilled or one of them has rejected; a rejection
\* makes it resolve to that promise's error, even while another promise is
\* still pending.
C12_ResolvesAfterAllFulfilledOrOneRejected ==
    \A c \in DOMAIN components :
        Settled(c) =>
            \/ /\ \A i \in DOMAIN promises : promises[i] = "fulfilled"
               /\ \A i \in DOMAIN promises : components[c].value # LoadError(i)
            \/ \E i \in DOMAIN promises :
                  /\ promises[i] = "rejected"
                  /\ components[c].value = LoadError(i)

C12_Witness ==
    \E c \in DOMAIN components :
        /\ Settled(c)
        /\ \E i, j \in DOMAIN promises :
              /\ promises[i] = "rejected"
              /\ components[c].value = LoadError(i)
              /\ promises[j] = "pending"

\* C13: the promise returned by Component() never rejects. When the container
\* promise of a route whose container is not a function rejects, when a
\* promise of require rejects, or when the container factory throws, it
\* resolves to that error; and when a promise of require rejects, nothing is
\* injected and the container factory is not called.
C13_NeverRejects ==
    \A c \in DOMAIN components :
        /\ components[c].state # "rejected"
        /\ (Settled(c) /\ ~isFunction(route.container) /\ promises[1] = "rejected")
           => components[c].value = LoadError(1)
        /\ (isFunction(route.container)
            /\ \E i \in DOMAIN promises : promises[i] = "rejected")
           => /\ Untouched
              /\ components[c].log = << >>
              /\ Settled(c) =>
                    \E i \in DOMAIN promises :
                        /\ promises[i] = "rejected"
                        /\ components[c].value = LoadError(i)
        /\ (Constructed(c) /\ route.container = ThrowingLoader)
           => /\ components[c].state = "fulfilled"
              /\ components[c].value = ContainerError

C13_Witness ==
    /\ isFunction(route.container)
    /\ Len(promises) = 3
    /\ promises[1] = "fulfilled"
    /\ promises[2] = "fulfilled"
    /\ promises[3] = "rejected"
    /\ \E c \in DOMAIN components :
          /\ components[c].state = "fulfilled"
          /\ components[c].value = LoadError(3)

\* the arguments the callback gives the injectors for this chunk are valid
ChunkValid(chunk) ==
    LET given == Given(chunk)
    IN  /\ Truthy(given.reducer)
           => isString(given.name) /\ given.name.val # "" /\ isFunction(given.reducer)
        /\ Truthy(given.saga)
           => isString(given.name) /\ given.name.val # "" /\ isFunction(given.saga)

\* every promise of require has fulfilled, with chunks the injectors accept
Loadable ==
    /\ isFunction(route.container)
    /\ \A i \in DOMAIN promises : promises[i] = "fulfilled"
    /\ \A j \in DOMAIN RouteChunks : ChunkValid(RouteChunks[j])

\* no two chunks export different reducers, or different sagas, under one name
NoConflict ==
    \A j, k \in DOMAIN RouteChunks :
        LET a == Given(RouteChunks[j])
            b == Given(RouteChunks[k])
        IN  a.name = b.name =>
                /\ (Truthy(a.reducer) /\ Truthy(b.reducer)) => a.reducer = b.reducer
                /\ (Truthy(a.saga) /\ Truthy(b.saga)) => a.saga = b.saga

\* how many injector calls op(key, value), over all invocations, made this
\* call on the store
StoreCalls(invocations, op, key, value, call) ==
    Cardinality({ca \in {<<c, a>> : c \in DOMAIN invocations,
                                  a \in 1..(2 * MaxChunks + 1)} :
        /\ ca[2] \in DOMAIN invocations[ca[1]].log
        /\ LET entry == invocations[ca[1]].log[ca[2]]
           IN  /\ entry.op = op /\ entry.key = key /\ entry.value = value
               /\ \E m \in DOMAIN entry.made : entry.made[m] = call})

\* the step runs the callback of invocation c
RunsCallback(c) ==
    /\ Loadable
    /\ components[c].state = "pending"
    /\ components'[c].state # "pending"

\* each reducer the chunks export has had store.replaceReducer called for it
\* once, and each saga store.runSaga once, over all the invocations
InjectedOnce(invocations) ==
    \A j \in DOMAIN RouteChunks :
        LET given == Given(RouteChunks[j])
        IN  /\ Truthy(given.reducer)
               => StoreCalls(invocations, "injectReducer", given.name,
                             given.reducer, "replaceReducer") = 1
            /\ Truthy(given.saga)
               => StoreCalls(invocations, "injectSaga", given.name,
                             given.saga, "runSaga") = 1

NoPriorEntry(j) ==
    \A k \in DOMAIN RouteChunks :
        (k < j /\ Truthy(Given(RouteChunks[k]).saga))
        => Given(RouteChunks[k]).name # Given(RouteChunks[j]).name

\* the store holds what chunk j exports: its reducer at its name, and for its
\* saga a DAEMON descriptor with the task store.runSaga returned for it
HoldsChunk(j) ==
    LET given == Given(RouteChunks[j])
    IN  /\ Truthy(given.reducer)
           => /\ Has(injectedReducers, given.name.val)
              /\ injectedReducers[given.name.val] = given.reducer
        /\ (Truthy(given.saga) /\ NoPriorEntry(j))
           => /\ Has(injectedSagas, given.name.val)
              /\ injectedSagas[given.name.val].type = "descriptor"
              /\ injectedSagas[given.name.val].saga = given.saga
              /\ injectedSagas[given.name.val].mode = DAEMON
              /\ injectedSagas[given.name.val].task \in DOMAIN tasks
              /\ tasks[injectedSagas[given.name.val].task].saga = given.saga

\* nothing the container module exports has been injected
ContainerNotInjected ==
    /\ ~Has(injectedReducers, Given(route.require[1]).name.val)
    /\ ~Has(injectedSagas, Given(route.require[1]).name.val)
    /\ \A i \in DOMAIN tasks : tasks[i].saga # Given(route.require[1]).saga

SomeInvalid == \E j \in DOMAIN RouteChunks : ~ChunkValid(RouteChunks[j])

\* the first chunk whose arguments the injectors reject
FirstInvalid ==
    CHOOSE j \in DOMAIN RouteChunks :
        /\ ~ChunkValid(RouteChunks[j])
        /\ \A k \in DOMAIN RouteChunks : ~ChunkValid(RouteChunks[k]) => j <= k

\* what chunk j injected is still in the store, unless a chunk from j + 1 to
\* upto wrote its own reducer or saga at the same name
StillInjected(j, upto) ==
    LET given == Given(RouteChunks[j])
        same == {k \in j..upto : Given(RouteChunks[k]).name = given.name}
    IN  /\ Truthy(given.reducer)
           => /\ Has(injectedReducers, given.name.val)
              /\ \E k \in same :
                    injectedReducers[given.name.val] = Given(RouteChunks[k]).reducer
        /\ Truthy(given.saga)
           => /\ Has(injectedSagas, given.name.val)
              /\ injectedSagas[given.name.val].type = "descriptor"
              /\ \E k \in 1..upto :
                    /\ Given(RouteChunks[k]).name = given.name
                    /\ injectedSagas[given.name.val].saga = Given(RouteChunks[k]).saga

\* C18: when an injector fails with a contract violation for the i-th chunk
\* during Component(), what chunks 1..i-1 injected remains injected, no
\* injector is called for a chunk after the i-th, the container factory is
\* not called, and Component() resolves to the error.
C18_PartialFailureKeepsEarlierChunks ==
    (/\ isFunction(route.container)
     /\ \A i \in DOMAIN promises : promises[i] = "fulfilled"
     /\ SomeInvalid)
    => \A c \in DOMAIN components :
          Settled(c) =>
              /\ components[c].state = "fulfilled"
              /\ components[c].value = ContractViolation
              /\ \A a \in DOMAIN components[c].log :
                    /\ components[c].log[a].op # "container"
                    /\ components[c].log[a].chunk <= FirstInvalid
              /\ \A j \in 1..(FirstInvalid - 1) : StillInjected(j, FirstInvalid)

C18_Witness ==
    /\ Len(RouteChunks) = 2
    /\ ChunkValid(RouteChunks[1])
    /\ ~ChunkValid(RouteChunks[2])
    /\ \E c \in DOMAIN components :
          /\ components[c].state = "fulfilled"
          /\ components[c].value = ContractViolation
          /\ Len(components[c].log) = 4
    /\ Has(injectedReducers, "users")
    /\ Has(injectedSagas, "users")

====
